---- MODULE Spec2Model ----
(***************************************************************************)
(* Model of md_generator (src/src/main.rs): a one-shot command-line tool   *)
(* that assembles a Markdown report from groups of source files.           *)
(*                                                                         *)
(* Text is modelled as a sequence of fragments.  A string taken from the   *)
(* command line or from a file is a sequence of one-character fragments;   *)
(* the literal parts of a format string are fragments of their own, and a  *)
(* newline is always a fragment by itself, so that the concatenation of    *)
(* the fragments is the byte stream the program produces.                  *)
(***************************************************************************)
EXTENDS Integers, Sequences, FiniteSets, TLC

VARIABLES
    pc,         \* position of main / write_assignments
    argv,       \* the command line: raw option values, before Args::parse
    disk,       \* the input files: path -> content, Missing or Unreadable
    args,       \* struct Args, the result of Args::parse
    created,    \* the output file has been created / truncated
    opened,     \* the input paths File::open has succeeded on, in order
    out,        \* the buffers handed to buf_writer.write, in order
    i,          \* enumerate() index of the group loop (0-based)
    j,          \* index of the path loop (0-based)
    file_name,  \* local file_name of write_assignments
    fn_pc,      \* position of the single-function harness
    fn_arg,     \* argument of the function under test
    fn_ret,     \* its result
    fn_names    \* get_file_name_from_path of every parsed path

runVars == <<pc, argv, disk, args, created, opened, out, i, j, file_name>>
fnVars == <<fn_pc, fn_arg, fn_ret, fn_names>>
vars == <<pc, argv, disk, args, created, opened, out, i, j, file_name,
          fn_pc, fn_arg, fn_ret, fn_names>>

----------------------------------------------------------------------------
(* Bounds and input alphabets *)

MaxInputLen == 5
MaxNameLen == 6
MaxGroups == 2

NUL == "NUL"
NL == "\n"
None == "None"
NoMatch == [found |-> FALSE, from |-> 0, to |-> 0]

\* the value standing for a panic of unwrap(): no string of characters
Panic == <<"<panic>">>

\* characters of the path-list inputs: two ordinary characters, the three
\* characters the patterns exclude, and the separator of the split
PathAlphabet == {"a", "b", "/", ":", NUL, " "}

\* characters of the file names given to the extension resolver (file names
\* are final segments of validated paths: no ':', '/' or NUL)
NameAlphabet == {"c", "h", "p", "x", "."}

Strings(A, n) == UNION {[1..k -> A] : k \in 0..n}

----------------------------------------------------------------------------
(* Sequence helpers *)

Last(s) == s[Len(s)]

RECURSIVE Flat(_)
Flat(ss) == IF ss = <<>> THEN <<>> ELSE Head(ss) \o Flat(Tail(ss))

IsPrefix(s, t) == Len(s) <= Len(t) /\ SubSeq(t, 1, Len(s)) = s

\* format!("{}", n) of an unsigned integer
Digit(d) ==
    CASE d = 0 -> "0" [] d = 1 -> "1" [] d = 2 -> "2" [] d = 3 -> "3"
      [] d = 4 -> "4" [] d = 5 -> "5" [] d = 6 -> "6" [] d = 7 -> "7"
      [] d = 8 -> "8" [] d = 9 -> "9"

RECURSIVE ToDecimal(_)
ToDecimal(n) ==
    IF n < 10 THEN <<Digit(n)>> ELSE ToDecimal(n \div 10) \o <<Digit(n % 10)>>

----------------------------------------------------------------------------
(* The three regular expressions.  Positions are 1-based; a match is a     *)
(* record [from, to] covering s[from .. to-1].  The regex crate returns    *)
(* the leftmost match and, the quantifiers being greedy, at that start the *)
(* one the greedy choices reach first.                                     *)

\* the class with ':' and NUL left out of the exclusions: [^/]
PathCharLax(c) == c # "/"

\* the class [^:/\0]
PathChar(c) == c \notin {":", "/", NUL}

\* end of the maximal run of [^:/\0] starting at position k (k if none)
RECURSIVE RunEnd(_, _)
RunEnd(s, k) ==
    IF k <= Len(s) /\ PathChar(s[k]) THEN RunEnd(s, k + 1) ELSE k

\* one iteration of the group (\/?[^:/\0]+) at k: the end, or 0 for no match
GroupIter(s, k) ==
    IF k <= Len(s) /\ s[k] = "/" /\ RunEnd(s, k + 1) > k + 1
    THEN RunEnd(s, k + 1)
    ELSE IF RunEnd(s, k) > k THEN RunEnd(s, k) ELSE 0

\* (\/?[^:/\0]+)+ anchored at k, greedy: the end, or 0 for no match
RECURSIVE PathMatchAt(_, _)
PathMatchAt(s, k) ==
    LET e == GroupIter(s, k) IN
    IF e = 0 THEN 0
    ELSE LET more == PathMatchAt(s, e) IN IF more = 0 THEN e ELSE more

\* regex.captures(path) of from_str: the leftmost match at or after k
RECURSIVE PathCaptures(_, _)
PathCaptures(s, k) ==
    IF k > Len(s) THEN NoMatch
    ELSE IF PathMatchAt(s, k) # 0
         THEN [found |-> TRUE, from |-> k, to |-> PathMatchAt(s, k)]
    ELSE PathCaptures(s, k + 1)

\* ([^:/\0]+)+ anchored at k: the whole maximal run (the outer repetition
\* finds nothing left to take), or 0
SegmentMatchAt(s, k) == IF RunEnd(s, k) > k THEN RunEnd(s, k) ELSE 0

\* find_iter of ([^:/\0]+)+ from k: the successive non-overlapping matches
RECURSIVE SegmentFindIter(_, _)
SegmentFindIter(s, k) ==
    IF k > Len(s) THEN <<>>
    ELSE IF SegmentMatchAt(s, k) # 0
         THEN <<[found |-> TRUE, from |-> k, to |-> SegmentMatchAt(s, k)]>>
              \o SegmentFindIter(s, SegmentMatchAt(s, k))
         ELSE SegmentFindIter(s, k + 1)

Min(a, b) == IF a < b THEN a ELSE b

\* \.[^:/\0]{1,3} anchored at k: a dot, then greedily up to three characters
\* of the class (which contains the dot itself); the end, or 0
ExtensionMatchAt(s, k) ==
    IF k <= Len(s) /\ s[k] = "." /\ RunEnd(s, k + 1) > k + 1
    THEN Min(RunEnd(s, k + 1), k + 4)
    ELSE 0

\* find_iter of \.[^:/\0]{1,3} from k
RECURSIVE ExtensionFindIter(_, _)
ExtensionFindIter(s, k) ==
    IF k > Len(s) THEN <<>>
    ELSE IF ExtensionMatchAt(s, k) # 0
         THEN <<[found |-> TRUE, from |-> k, to |-> ExtensionMatchAt(s, k)]>>
              \o ExtensionFindIter(s, ExtensionMatchAt(s, k))
         ELSE ExtensionFindIter(s, k + 1)

MatchStr(s, m) == SubSeq(s, m.from, m.to - 1)

----------------------------------------------------------------------------
(* AssignmentFiles::from_str *)

\* str::split(' '): every piece between two separators, the empty ones too;
\* the empty string gives one empty piece
RECURSIVE SplitFrom(_, _, _)
SplitFrom(s, k, cur) ==
    IF k > Len(s) THEN <<cur>>
    ELSE IF s[k] = " " THEN <<cur>> \o SplitFrom(s, k + 1, <<>>)
    ELSE SplitFrom(s, k + 1, Append(cur, s[k]))

\* a split that drops the empty pieces (as split_whitespace would)
SplitSkipEmpty(s) ==
    LET all == SplitFrom(s, 1, <<>>) IN SelectSeq(all, LAMBDA t : t # <<>>)

Split(s) == SplitFrom(s, 1, <<>>)

\* the body of the loop over the pieces: is the token pushed
PathAccepted(path) ==
    LET captures == PathCaptures(path, 1) IN
    /\ captures.found
    /\ path = MatchStr(path, captures)

from_str(s) ==
    LET paths == Split(s) IN
    IF Len(paths) = 0 THEN [ok |-> FALSE, paths |-> <<>>]
    ELSE IF \E k \in 1..Len(paths) : ~PathAccepted(paths[k])
         THEN [ok |-> FALSE, paths |-> <<>>]
         ELSE [ok |-> TRUE, paths |-> paths]

----------------------------------------------------------------------------
(* get_file_name_from_path and get_escape_expression_from_file_extension *)

\* the first match taken instead of the last
get_file_name_first(path) ==
    LET ms == SegmentFindIter(path, 1) IN
    IF ms = <<>> THEN Panic ELSE MatchStr(path, Head(ms))

\* find_iter(path).last().unwrap().as_str(); unwrap of None panics
get_file_name_from_path(path) ==
    LET ms == SegmentFindIter(path, 1) IN
    IF ms = <<>> THEN Panic ELSE MatchStr(path, Last(ms))

UnsupportedExtension == "UnsupportedExtension"
MissingExtension == "MissingExtension"

\* Ok(tag), or Err carrying the text the message is formatted from
get_escape_expression_from_file_extension(file, file_path) ==
    LET ms == ExtensionFindIter(file, 1) IN
    IF ms # <<>>
    THEN LET r == MatchStr(file, Last(ms)) IN
         CASE r \in {<<".", "c">>, <<".", "h">>}
                -> [ok |-> TRUE, tag |-> <<"c">>]
           [] r \in {<<".", "c", "p", "p">>, <<".", "h", "p", "p">>}
                -> [ok |-> TRUE, tag |-> <<"c", "p", "p">>]
           [] OTHER
                -> [ok |-> FALSE, err |-> UnsupportedExtension, text |-> <<r>>]
    ELSE [ok |-> FALSE, err |-> MissingExtension, text |-> <<file, file_path>>]

----------------------------------------------------------------------------
(* Harness for the single functions: the argument is drawn in the initial  *)
(* state, the actions call the function on it.                             *)

RunIdle ==
    /\ pc = "idle"
    /\ argv = <<>>
    /\ disk = <<>>
    /\ args = None
    /\ created = FALSE
    /\ opened = <<>>
    /\ out = <<>>
    /\ i = 0
    /\ j = 0
    /\ file_name = <<>>

InitFromStr ==
    /\ RunIdle
    /\ fn_pc = "from_str"
    /\ fn_arg \in Strings(PathAlphabet, MaxInputLen)
    /\ fn_ret = None
    /\ fn_names = None

CallFromStr ==
    /\ fn_pc = "from_str"
    /\ fn_ret' = from_str(fn_arg)
    /\ fn_pc' = IF fn_ret'.ok THEN "file_names" ELSE "returned"
    /\ UNCHANGED <<fn_arg, fn_names>>
    /\ UNCHANGED runVars

\* write_assignments calls get_file_name_from_path on every parsed path
CallGetFileName ==
    /\ fn_pc = "file_names"
    /\ fn_names' = [k \in 1..Len(fn_ret.paths) |->
                        get_file_name_from_path(fn_ret.paths[k])]
    /\ fn_pc' = "returned"
    /\ UNCHANGED <<fn_arg, fn_ret>>
    /\ UNCHANGED runVars

NextFromStr == CallFromStr \/ CallGetFileName

SpecFromStr == InitFromStr /\ [][NextFromStr]_vars

InitExtension ==
    /\ RunIdle
    /\ fn_pc = "extension"
    /\ fn_arg \in Strings(NameAlphabet, MaxNameLen) \ {<<>>}
    /\ fn_ret = None
    /\ fn_names = None

CallGetEscapeExpression ==
    /\ fn_pc = "extension"
    /\ fn_ret' = get_escape_expression_from_file_extension(fn_arg, fn_arg)
    /\ fn_pc' = "returned"
    /\ UNCHANGED <<fn_arg, fn_names>>
    /\ UNCHANGED runVars

NextExtension == CallGetEscapeExpression

SpecExtension == InitExtension /\ [][NextExtension]_vars

----------------------------------------------------------------------------
(* The run of main.  The command lines and the input files are drawn in    *)
(* the initial state.  out holds the buffers handed to buf_writer.write;   *)
(* buf_writer is dropped when main returns, with Ok or with Err, and the   *)
(* drop flushes them, so out is also the content of the output file at the *)
(* end of the run.  Writes to the output file are taken to succeed in      *)
(* full: the failures modelled are those of opening the output file and of *)
(* resolving, opening and reading the input files.                         *)

Missing == <<"<missing>">>        \* File::open fails (not found, permission)
Unreadable == <<"<unreadable>">>  \* File::open succeeds, read_to_end fails

PathA == <<"a", ".", "c">>
PathB == <<"d", "/", "b", ".", "h", "p", "p">>

\* values of one occurrence of the files option
RawChoices ==
    { PathA,
      PathB \o <<" ">> \o PathA,
      <<"x", ".", "p", "y">>,
      <<"n", "o">>,
      <<>> }

DiskPaths == {PathA, PathB}
Contents == {<<>>, <<"x">>, <<"x", NL>>}
FileStates == Contents \cup {Missing, Unreadable}
Weeks == {12}

NoArgs ==
    [name |-> <<>>, class |-> <<>>, student_number |-> 0, week |-> 0,
     tutorial |-> FALSE, assignment_files |-> <<>>]

DiskLookup(d, path) == IF path \in DOMAIN d THEN d[path] ELSE Missing

\* a parse that splits the occurrences without validating them
ArgsParseUnvalidated(av) ==
    [ok |-> TRUE,
     args |-> [av EXCEPT !.assignment_files =
                 [k \in DOMAIN av.assignment_files |->
                    Split(av.assignment_files[k])]]]

\* Args::parse with value_parser!(AssignmentFiles): every occurrence of the
\* files option goes through from_str; one Err makes clap report it and exit
ArgsParse(av) ==
    LET rs == [k \in DOMAIN av.assignment_files |->
                 from_str(av.assignment_files[k])] IN
    IF \A k \in DOMAIN rs : rs[k].ok
    THEN [ok |-> TRUE,
          args |-> [av EXCEPT !.assignment_files =
                      [k \in DOMAIN rs |-> rs[k].paths]]]
    ELSE [ok |-> FALSE, args |-> NoArgs]

\* Local::now().format("%d/%m/%Y")
LocalNow == <<"05/11/2026">>

\* the seven buffers write_header_on_file writes
HeaderWrites(a) ==
    LET h1_text ==
            IF a.tutorial = TRUE
            THEN <<"# ", "Tutorial", " week ">> \o ToDecimal(a.week) \o <<"  ", NL>>
            ELSE <<"# ", "Assignment", " week ">> \o ToDecimal(a.week) \o <<"  ", NL>>
        student_name_text == <<"Name: ">> \o a.name \o <<"  ", NL>>
        student_number_text ==
            <<"Student number: ">> \o ToDecimal(a.student_number) \o <<"  ", NL>>
        class_text == <<"Class: ">> \o a.class \o <<"  ", NL>>
        date_text == <<"Date: ">> \o LocalNow \o <<"  ", NL>>
    IN  << h1_text, <<"  ", NL>>, student_name_text, student_number_text,
           class_text, date_text, <<"  ", NL>> >>

\* the group heading numbered with the bare enumerate() index
GroupHeadingZeroBased(a, idx) ==
    IF a.tutorial = TRUE
    THEN <<"## ", "Tutorial", " ">> \o ToDecimal(idx) \o <<"  ", NL, "  ", NL>>
    ELSE <<"## ", "Assignment", " ">> \o ToDecimal(idx) \o <<"  ", NL, "  ", NL>>

\* the group heading of iteration idx of enumerate(): numbered idx + 1
GroupHeading(a, idx) ==
    IF a.tutorial = TRUE
    THEN <<"## ", "Tutorial", " ">> \o ToDecimal(idx + 1) \o <<"  ", NL, "  ", NL>>
    ELSE <<"## ", "Assignment", " ">> \o ToDecimal(idx + 1) \o <<"  ", NL, "  ", NL>>

FileHeading(name) == <<"### File: ">> \o name \o <<"  ", NL, "  ", NL>>
\* the three backquote characters of a fence (a TLA+ string cannot hold the
\* backquote character itself)
Backquotes == "BACKQUOTE BACKQUOTE BACKQUOTE"

OpeningFence(tag) == <<Backquotes>> \o tag \o <<NL>>
ClosingFence == <<Backquotes, "  ", NL>>

\* an Err that is dropped instead of returned
TryIgnored(ok, next) == next

\* the ? operator: an Err returns from the function at once
Try(ok, next) == IF ok THEN next ELSE "failed"

Init ==
    /\ pc = "parse"
    /\ argv \in [name : {<<"A">>}, class : {<<"B">>}, student_number : {1},
                 week : Weeks, tutorial : BOOLEAN,
                 assignment_files :
                     UNION {[1..n -> RawChoices] : n \in 1..MaxGroups}]
    /\ disk \in [DiskPaths -> FileStates]
    /\ args = NoArgs
    /\ created = FALSE
    /\ opened = <<>>
    /\ out = <<>>
    /\ i = 0
    /\ j = 0
    /\ file_name = <<>>
    /\ fn_pc = "idle"
    /\ fn_arg = <<>>
    /\ fn_ret = None
    /\ fn_names = None

\* main: let args = Args::parse();
ParseArgs ==
    /\ pc = "parse"
    /\ LET r == ArgsParse(argv) IN
        /\ args' = r.args
        /\ pc' = IF r.ok THEN "open_output" ELSE "usage_error"
    /\ UNCHANGED <<argv, disk, created, opened, out, i, j, file_name>>
    /\ UNCHANGED fnVars

\* main: File::options().create(true)...truncate(true).open(&output_file)?
OpenOutput ==
    /\ pc = "open_output"
    /\ \E ok \in BOOLEAN :
        /\ created' = ok
        /\ pc' = Try(ok, "header")
    /\ UNCHANGED <<argv, disk, args, opened, out, i, j, file_name>>
    /\ UNCHANGED fnVars

\* main: write_header_on_file(&mut buf_writer, &args)?
WriteHeader ==
    /\ pc = "header"
    /\ out' = out \o HeaderWrites(args)
    /\ i' = 0
    /\ pc' = "group"
    /\ UNCHANGED <<argv, disk, args, created, opened, j, file_name>>
    /\ UNCHANGED fnVars

\* write_assignments: one iteration of the outer loop begins
WriteGroupHeading ==
    /\ pc = "group"
    /\ i < Len(args.assignment_files)
    /\ out' = Append(out, GroupHeading(args, i))
    /\ j' = 0
    /\ pc' = "path"
    /\ UNCHANGED <<argv, disk, args, created, opened, i, file_name>>
    /\ UNCHANGED fnVars

\* write_assignments: the outer loop is over, Ok(()); main returns and the
\* drop of buf_writer flushes everything written
Finish ==
    /\ pc = "group"
    /\ i = Len(args.assignment_files)
    /\ pc' = "done"
    /\ UNCHANGED <<argv, disk, args, created, opened, out, i, j, file_name>>
    /\ UNCHANGED fnVars

\* write_assignments: one iteration of the inner loop begins
WriteFileHeading ==
    /\ pc = "path"
    /\ j < Len(args.assignment_files[i + 1])
    /\ LET path == args.assignment_files[i + 1][j + 1]
           name == get_file_name_from_path(path) IN
        /\ file_name' = name
        /\ out' = IF name = Panic THEN out ELSE Append(out, FileHeading(name))
        /\ pc' = IF name = Panic THEN "panicked" ELSE "fence"
    /\ UNCHANGED <<argv, disk, args, created, opened, i, j>>
    /\ UNCHANGED fnVars

\* write_assignments: the inner loop is over
EndGroup ==
    /\ pc = "path"
    /\ j = Len(args.assignment_files[i + 1])
    /\ i' = i + 1
    /\ pc' = "group"
    /\ UNCHANGED <<argv, disk, args, created, opened, out, j, file_name>>
    /\ UNCHANGED fnVars

\* write_assignments: the opening fence; the tag is resolved before the write
WriteOpeningFence ==
    /\ pc = "fence"
    /\ LET path == args.assignment_files[i + 1][j + 1]
           r == get_escape_expression_from_file_extension(file_name, path) IN
        /\ out' = IF r.ok THEN Append(out, OpeningFence(r.tag)) ELSE out
        /\ pc' = Try(r.ok, "open_input")
    /\ UNCHANGED <<argv, disk, args, created, opened, i, j, file_name>>
    /\ UNCHANGED fnVars

\* write_assignments: let read_file = File::open(path)?
OpenInput ==
    /\ pc = "open_input"
    /\ LET path == args.assignment_files[i + 1][j + 1]
           ok == DiskLookup(disk, path) # Missing IN
        /\ opened' = IF ok THEN Append(opened, path) ELSE opened
        /\ pc' = Try(ok, "read")
    /\ UNCHANGED <<argv, disk, args, created, out, i, j, file_name>>
    /\ UNCHANGED fnVars

\* write_assignments: read_to_end(&mut v)?, write(v), write of the closing fence
ReadAndWrite ==
    /\ pc = "read"
    /\ LET path == args.assignment_files[i + 1][j + 1]
           v == DiskLookup(disk, path)
           ok == v # Unreadable IN
        /\ out' = IF ok THEN out \o <<v, ClosingFence>> ELSE out
        /\ j' = IF ok THEN j + 1 ELSE j
        /\ pc' = Try(ok, "path")
    /\ UNCHANGED <<argv, disk, args, created, opened, i, file_name>>
    /\ UNCHANGED fnVars

Next ==
    \/ ParseArgs
    \/ OpenOutput
    \/ WriteHeader
    \/ WriteGroupHeading
    \/ Finish
    \/ WriteFileHeading
    \/ EndGroup
    \/ WriteOpeningFence
    \/ OpenInput
    \/ ReadAndWrite

Spec == Init /\ [][Next]_vars

----------------------------------------------------------------------------
(* Properties of AssignmentFiles::from_str and get_file_name_from_path,    *)
(* checked under SpecFromStr.                                              *)

FromStrReturned == fn_pc \in {"file_names", "returned"}

\* the maximal space-free non-empty substrings of s, in order
NonEmptyTokens(s) == SelectSeq(Split(s), LAMBDA t : t # <<>>)

\* optional leading '/', then non-empty segments without ':', '/' and NUL,
\* separated by single '/'
FullyMatchesPathPattern(t) ==
    /\ t # <<>>
    /\ \A k \in 1..Len(t) : t[k] \notin {":", NUL}
    /\ t[Len(t)] # "/"
    /\ \A k \in 1..(Len(t) - 1) : ~(t[k] = "/" /\ t[k + 1] = "/")

RECURSIVE JoinWithSpaces(_)
JoinWithSpaces(ts) ==
    IF ts = <<>> THEN <<>>
    ELSE IF Len(ts) = 1 THEN ts[1]
    ELSE ts[1] \o <<" ">> \o JoinWithSpaces(Tail(ts))

\* the text after the last '/', or the whole path when it has none
AfterLastSlash(path) ==
    LET S == {k \in 1..Len(path) : path[k] = "/"} IN
    IF S = {} THEN path
    ELSE SubSeq(path, (CHOOSE k \in S : \A m \in S : m <= k) + 1, Len(path))

\* C3 (as claimed): from_str fails exactly when the input has no non-empty
\* token or one of its non-empty tokens does not fully match the path
\* pattern, and otherwise returns the non-empty tokens in order.
C3_NonEmptyTokensParsed ==
    FromStrReturned =>
        LET T == NonEmptyTokens(fn_arg) IN
        IF T = <<>> \/ \E k \in 1..Len(T) : ~FullyMatchesPathPattern(T[k])
        THEN ~fn_ret.ok
        ELSE fn_ret.ok /\ fn_ret.paths = T

\* C9: from_str rejects the empty string and every input one of whose
\* space-delimited tokens contains ':' or NUL.
C9_RejectsEmptyColonNul ==
    FromStrReturned =>
        LET T == Split(fn_arg) IN
        (\/ fn_arg = <<>>
         \/ \E k \in 1..Len(T) : \E m \in 1..Len(T[k]) : T[k][m] \in {":", NUL})
        => ~fn_ret.ok

\* a rejected input with a valid first token and ':' inside a later token
C9_Witness ==
    /\ fn_pc = "returned"
    /\ ~fn_ret.ok
    /\ fn_arg = <<"a", " ", "b", ":", "a">>

\* C10: for every accepted input, joining the returned paths with single
\* spaces gives the input back, and parsing the joined string gives the same
\* paths.
C10_SplitJoinRoundTrip ==
    (FromStrReturned /\ fn_ret.ok) =>
        /\ JoinWithSpaces(fn_ret.paths) = fn_arg
        /\ from_str(JoinWithSpaces(fn_ret.paths)).ok
        /\ from_str(JoinWithSpaces(fn_ret.paths)).paths = fn_ret.paths

\* an accepted input of two paths
C10_Witness ==
    /\ FromStrReturned
    /\ fn_ret.ok
    /\ fn_ret.paths = << <<"a", "/", "b">>, <<"b">> >>

\* C8: on every path from_str accepted, get_file_name_from_path does not
\* panic and returns the non-empty text after the last '/' (the whole path
\* when there is none); no accepted path is empty or ends in '/'.
C8_FileNameIsFinalSegment ==
    (fn_pc = "returned" /\ fn_ret.ok) =>
        \A k \in 1..Len(fn_ret.paths) :
            /\ fn_ret.paths[k] # <<>>
            /\ Last(fn_ret.paths[k]) # "/"
            /\ fn_names[k] # Panic
            /\ fn_names[k] # <<>>
            /\ fn_names[k] = AfterLastSlash(fn_ret.paths[k])

\* the name of an absolute path of two segments has been extracted
C8_Witness ==
    /\ fn_pc = "returned"
    /\ fn_ret.ok
    /\ fn_ret.paths = << <<"/", "a", "/", "b">> >>
    /\ fn_names[1] = <<"b">>

----------------------------------------------------------------------------
(* Properties of get_escape_expression_from_file_extension, checked under  *)
(* SpecExtension.                                                          *)

\* the text from the last dot of the name to its end (<<>> without a dot)
FromLastDot(name) ==
    LET S == {k \in 1..Len(name) : name[k] = "."} IN
    IF S = {} THEN <<>>
    ELSE SubSeq(name, CHOOSE k \in S : \A m \in S : m <= k, Len(name))

HasDotThenChar(name) == \E k \in 1..(Len(name) - 1) : name[k] = "."

ExtC == {<<".", "c">>, <<".", "h">>}
ExtCpp == {<<".", "c", "p", "p">>, <<".", "h", "p", "p">>}

\* C4 (as claimed): a name ending in '.c' or '.h' resolves to "c" and one
\* ending in '.cpp' or '.hpp' to "cpp", earlier dots in the name or not.
C4_SupportedExtensionResolves ==
    fn_pc = "returned" =>
        /\ FromLastDot(fn_arg) \in ExtC
              => (fn_ret.ok /\ fn_ret.tag = <<"c">>)
        /\ FromLastDot(fn_arg) \in ExtCpp
              => (fn_ret.ok /\ fn_ret.tag = <<"c", "p", "p">>)

\* C5 (as claimed): a name whose text from the last dot on is not in the
\* table gets no tag: the unsupported-extension error when the name has a
\* dot followed by a character, the missing-extension error otherwise, and
\* the missing-extension error in no other case.
C5_OnlyTableExtensionsResolve ==
    fn_pc = "returned" =>
        /\ FromLastDot(fn_arg) \notin (ExtC \cup ExtCpp) =>
              /\ ~fn_ret.ok
              /\ fn_ret.err = IF HasDotThenChar(fn_arg)
                              THEN UnsupportedExtension ELSE MissingExtension
        /\ (~fn_ret.ok /\ ~HasDotThenChar(fn_arg))
              => fn_ret.err = MissingExtension

----------------------------------------------------------------------------
(* Properties of the run, checked under Spec.                              *)

\* the groups in the order the files option was supplied
AllGroupsParse ==
    \A k \in DOMAIN argv.assignment_files :
        from_str(argv.assignment_files[k]).ok

SuppliedGroups ==
    [k \in DOMAIN argv.assignment_files |->
        from_str(argv.assignment_files[k]).paths]

Kind == IF argv.tutorial THEN "Tutorial" ELSE "Assignment"

ResolvedTag(path) ==
    get_escape_expression_from_file_extension(get_file_name_from_path(path), path)

\* what processing the file at this path comes to
FileOutcome(path) ==
    IF ~ResolvedTag(path).ok THEN "extension"
    ELSE IF DiskLookup(disk, path) = Missing THEN "open"
    ELSE IF DiskLookup(disk, path) = Unreadable THEN "read"
    ELSE "ok"

AllResolveAndOpen ==
    /\ AllGroupsParse
    /\ \A k \in DOMAIN SuppliedGroups :
         \A m \in 1..Len(SuppliedGroups[k]) :
            FileOutcome(SuppliedGroups[k][m]) = "ok"

ExpectedH1 == <<"# ", Kind, " week ">> \o ToDecimal(argv.week) \o <<"  ", NL>>

ExpectedGroupHeading(n) ==
    <<"## ", Kind, " ">> \o ToDecimal(n) \o <<"  ", NL, "  ", NL>>

ExpectedFileHeading(path) ==
    <<"### File: ">> \o AfterLastSlash(path) \o <<"  ", NL, "  ", NL>>

ExpectedOpeningFence(path) == <<Backquotes>> \o ResolvedTag(path).tag \o <<NL>>

ExpectedBlock(path) ==
    << ExpectedFileHeading(path),
       ExpectedOpeningFence(path),
       DiskLookup(disk, path),
       <<Backquotes, "  ", NL>> >>

RECURSIVE ExpectedBlocks(_)
ExpectedBlocks(paths) ==
    IF paths = <<>> THEN <<>>
    ELSE ExpectedBlock(Head(paths)) \o ExpectedBlocks(Tail(paths))

\* the body for groups n, n+1, ..., G
RECURSIVE ExpectedBody(_, _)
ExpectedBody(groups, n) ==
    IF n > Len(groups) THEN <<>>
    ELSE <<ExpectedGroupHeading(n)>> \o ExpectedBlocks(groups[n])
         \o ExpectedBody(groups, n + 1)

\* C1: when all files resolve and open, what is written is the header (its
\* first line carrying the kind), then for i = 1..G in supplied order the
\* heading of group i with the same kind and the blocks of its paths in
\* parsed order; the run does not fail and writes nothing else on the way.
C1_BodyInSuppliedOrder ==
    LET expected == HeaderWrites(argv) \o ExpectedBody(SuppliedGroups, 1) IN
    /\ (AllResolveAndOpen /\ created) =>
          /\ pc # "failed"
          /\ IsPrefix(out, expected)
          /\ out # <<>> => out[1] = ExpectedH1
    /\ pc = "done" => (AllResolveAndOpen /\ out = expected)

\* a finished tutorial report of two groups, the first of two files
C1_Witness ==
    /\ pc = "done"
    /\ argv.tutorial
    /\ Len(args.assignment_files) = 2
    /\ Len(args.assignment_files[1]) = 2
    /\ Len(out) = 7 + 1 + 8 + 1 + 4

\* C2 (as claimed): when a block has been written, its closing fence is
\* the last buffer, the buffer before it is exactly the file's bytes, the
\* one before that the opening fence line, and the byte just before the
\* closing fence is a newline.
C2_ClosingFenceStartsALine ==
    (pc = "path" /\ j > 0) =>
        LET n == Len(out)
            path == args.assignment_files[i + 1][j] IN
        /\ out[n] = <<Backquotes, "  ", NL>>
        /\ out[n - 1] = DiskLookup(disk, path)
        /\ out[n - 2] = ExpectedOpeningFence(path)
        /\ Last(Flat(SubSeq(out, 1, n - 1))) = NL

\* what is written up to and including the first file that fails
RECURSIVE EmittedBlocks(_)
EmittedBlocks(paths) ==
    IF paths = <<>> THEN [chunks |-> <<>>, failed |-> FALSE]
    ELSE LET path == Head(paths)
             o == FileOutcome(path) IN
         IF o = "extension"
         THEN [chunks |-> <<ExpectedFileHeading(path)>>, failed |-> TRUE]
         ELSE IF o \in {"open", "read"}
         THEN [chunks |-> <<ExpectedFileHeading(path), ExpectedOpeningFence(path)>>,
               failed |-> TRUE]
         ELSE LET rest == EmittedBlocks(Tail(paths)) IN
              [chunks |-> ExpectedBlock(path) \o rest.chunks,
               failed |-> rest.failed]

RECURSIVE EmittedBody(_, _)
EmittedBody(groups, n) ==
    IF n > Len(groups) THEN <<>>
    ELSE LET g == EmittedBlocks(groups[n]) IN
         <<ExpectedGroupHeading(n)>> \o g.chunks
         \o (IF g.failed THEN <<>> ELSE EmittedBody(groups, n + 1))

\* the input files opened up to the first file that fails
RECURSIVE OpenedUntilFailure(_)
OpenedUntilFailure(paths) ==
    IF paths = <<>> THEN <<>>
    ELSE LET o == FileOutcome(Head(paths)) IN
         IF o = "ok" THEN <<Head(paths)>> \o OpenedUntilFailure(Tail(paths))
         ELSE IF o = "read" THEN <<Head(paths)>>
         ELSE <<>>

\* C6: when a file cannot be resolved, opened or read, the run never
\* succeeds; what is written is always a prefix of: header, the complete
\* blocks of the files before the first failing one, the partial block of
\* that file; no later file is opened; and the failed run has written
\* exactly that much.
C6_FirstFailureStopsTheRun ==
    (AllGroupsParse /\ ~AllResolveAndOpen /\ created) =>
        LET emitted == HeaderWrites(argv) \o EmittedBody(SuppliedGroups, 1)
            attempted == OpenedUntilFailure(Flat(SuppliedGroups)) IN
        /\ pc # "done"
        /\ IsPrefix(out, emitted)
        /\ IsPrefix(opened, attempted)
        /\ pc = "failed" => (out = emitted /\ opened = attempted)

\* the first file of the second group failed after the first group was
\* written, and a further file of the second group was never attempted
C6_Witness ==
    /\ pc = "failed"
    /\ created
    /\ i = 1
    /\ j = 0
    /\ Len(args.assignment_files[2]) = 2
    /\ opened = <<PathA>>

\* C7: the output file is created, an input file opened or anything
\* written only when every group has parsed; a run with a group that fails
\* validation ends without any of these.
C7_ValidationBeforeFileIO ==
    /\ (created \/ opened # <<>> \/ out # <<>>) => AllGroupsParse
    /\ pc = "usage_error" =>
          (~AllGroupsParse /\ ~created /\ opened = <<>> /\ out = <<>>)
    /\ ~AllGroupsParse => pc \in {"parse", "usage_error"}

\* the run ended on an empty second occurrence of the files option
C7_Witness ==
    /\ pc = "usage_error"
    /\ argv.assignment_files = <<PathA, <<>>>>
    /\ ~created

====
